---- MODULE Spec2Model ----
(***************************************************************************)
(* The floating chat widget of the appointment scheduling agent            *)
(* (src/frontend/components/ChatMessage.tsx lines 55-415, the variant with *)
(* the imperative sendMessage handle and the isWaitingForConfirmation      *)
(* flag): the chat turn dispatcher (handleSendMessage), the booking status *)
(* reconciliation engine (the polling useEffect and checkBookingStatus),   *)
(* the hand-off notification (onBookingComplete) and the widget shell.     *)
(*                                                                         *)
(* React state is modelled as the variables below.  A handler's setState   *)
(* calls are applied at once and mark the component dirty; the Render      *)
(* action is React's commit: it refreshes what the closures of the next    *)
(* render see and runs the polling effect (cleanup, then setup) when one   *)
(* of its dependencies changed.  Timer callbacks, network responses and UI *)
(* events run on committed states; only a synchronous call of the exposed  *)
(* sendMessage handle can run between a handler and its commit.            *)
(***************************************************************************)
EXTENDS Integers, Sequences, FiniteSets, Bags, TLC

\* ---------------------------------------------------------------- bounds
MaxTurns == 4
\* Each chat request in flight holds two turns of the transcript, its user turn
\* and the turn its response appends; the status queries share that budget.
MaxInFlight == MaxTurns \div 2
MaxHandles == 2

\* ------------------------------------------------------------- constants
InitialDelayWaiting == 2000
InitialDelayIdle == 3000
PollIntervalWaiting == 3000
PollIntervalIdle == 5000

\* ----------------------------------------------------------------- data
\* Strings the code inspects character by character are sequences of characters.
TEMP == <<"T", "E", "M", "P", "-">>

NoId == <<>>

BookingIds == {<<"T", "E", "M", "P", "-", "1">>, <<"B", "K", "-", "1">>}

Statuses == {"pending", "ready", "confirmed"}

\* s.startsWith(p)
StartsWith(s, p) == Len(s) >= Len(p) /\ SubSeq(s, 1, Len(p)) = p

\* appointmentDetails === null
Null == [absent |-> TRUE]

SlotText == <<"9">>

Slot == [display_text |-> SlotText]

Texts == {<<>>, <<" ", " ">>, <<"9">>}

Handles == 1..MaxHandles

NoTimer == [live |-> FALSE]

IsSpace(c) == c = " "

RECURSIVE TrimStart(_)
TrimStart(s) ==
  IF s # <<>> /\ IsSpace(Head(s)) THEN TrimStart(Tail(s)) ELSE s

RECURSIVE TrimEnd(_)
TrimEnd(s) ==
  IF s # <<>> /\ IsSpace(s[Len(s)]) THEN TrimEnd(SubSeq(s, 1, Len(s) - 1)) ELSE s

\* message.trim()
Trim(s) == TrimEnd(TrimStart(s))

\* appointmentDetails?.booking_id is truthy
HasBookingId(ad) == ad # Null /\ ad.booking_id # NoId

\* isPending of the widget (polling effect and checkBookingStatus)
IsPending(ad) ==
  \/ ad.status = "pending"
  \/ ad.status = "ready"
  \/ StartsWith(ad.booking_id, TEMP)

\* isPending of the renderer (AppointmentConfirmation)
RendererIsPending(ad) ==
  \/ ad.status = "pending"
  \/ ad.status = "ready"
  \/ StartsWith(ad.booking_id, TEMP)

\* isConfirmed of the renderer (AppointmentConfirmation)
RendererIsConfirmed(ad) ==
  ad.status = "confirmed" /\ ~StartsWith(ad.booking_id, TEMP)

\* The booking payloads the chat call or the status query returns: a
\* provisional booking (pending, or already marked confirmed) and a real one in
\* every status.  A booking still to be completed carries its scheduling link,
\* a confirmed one carries none.
Payloads ==
  {p \in [booking_id : BookingIds, status : Statuses, scheduling_link : BOOLEAN] :
     /\ StartsWith(p.booking_id, TEMP) => p.status # "ready"
     /\ p.scheduling_link <=> ~RendererIsConfirmed(p)}

\* isNowConfirmed of checkBookingStatus
IsNowConfirmed(upd) ==
  upd.status = "confirmed" /\ ~StartsWith(upd.booking_id, TEMP)

\* appointmentDetails?.booking_id
IdOf(ad) == IF ad = Null THEN NoId ELSE ad.booking_id

\* The dependency list of the polling effect.
Deps(ad, waiting) ==
  IF ad = Null THEN <<NoId, "undefined", waiting>>
  ELSE <<ad.booking_id, ad.status, waiting>>

\* A period that does not depend on the flag.
PollIntervalFixed(waiting) == PollIntervalIdle

PollInterval(waiting) ==
  IF waiting THEN PollIntervalWaiting ELSE PollIntervalIdle

InitialDelay(waiting) ==
  IF waiting THEN InitialDelayWaiting ELSE InitialDelayIdle

\* A user turn that loses the submitted text.
UserTurnWithoutText(text) == [role |-> "user", kind |-> "text", content |-> <<>>]

\* The transcript's turns.
UserTurn(text) == [role |-> "user", kind |-> "text", content |-> text]

\* content: response.message
AssistantTurn(message) ==
  [role |-> "assistant", kind |-> "reply", content |-> message]

\* The fixed text around error.message in the turn of the catch block.
ErrorPrefix == <<"E", ":">>

ErrorSuffix == <<".">>

\* An error turn that leaves the error's text out.
ErrorTurnGeneric(errorText) ==
  [role |-> "assistant", kind |-> "error", content |-> ErrorPrefix \o ErrorSuffix]

\* content: `Sorry, I encountered an error: ${error.message}. Please try again.`
ErrorTurn(errorText) ==
  [role |-> "assistant", kind |-> "error",
   content |-> ErrorPrefix \o errorText \o ErrorSuffix]

\* An update of the transcript that puts the new turn in front.
AppendTurnFirst(prev, turn) == <<turn>> \o prev

\* setMessages((prev) => [...prev, turn])
AppendTurn(prev, turn) == Append(prev, turn)

\* A field the object does not carry, as a template literal reads it.
Undefined == <<"undefined">>

\* o.f, of an object that may omit the field
Field(o, f) == IF f \in DOMAIN o THEN o[f] ELSE Undefined

\* a || b, of two texts or absent fields
OrElse(a, b) == IF a # Undefined /\ a # <<>> THEN a ELSE b

\* The booking details the success message lists: each from the query's result,
\* else from the booking of the closure.
BookingDetailsOf(updated, local) ==
  [date |-> OrElse(Field(updated, "date"), Field(local, "date")),
   time |-> OrElse(Field(updated, "time"), Field(local, "time")),
   confirmation_code |-> OrElse(Field(updated, "confirmation_code"),
                                Field(local, "confirmation_code"))]

\* The success message of checkBookingStatus, on the result updated in a
\* closure holding the booking local.  Its content is kept as the details it
\* lists; the fixed wording around them is left out.
ConfirmationTurn(updated, local) ==
  [role |-> "assistant", kind |-> "confirmation",
   content |-> BookingDetailsOf(updated, local)]

VARIABLES
  messages,             \* useState: the transcript
  isLoading,            \* useState: the in-flight flag of the dispatcher
  appointmentDetails,   \* useState: BookingState, or Null
  availableSlots,       \* useState: the offered time slots
  isWaitingForConfirmation, \* useState: AWAITING_EXTERNAL_COMPLETION
  isOpen,               \* useState: widget shell
  isMinimized,          \* useState: widget shell
  isCompleting,         \* useState of AppointmentConfirmation
  dirty,                \* state updates are queued and not yet committed
  renderedIsLoading,    \* isLoading as the closures of the last render see it
  effectDeps,           \* the dependencies the polling effect last ran with
  effectTimeout,        \* initialTimeout of the effect's cleanup closure, or 0
  pollingIntervalRef,   \* pollingIntervalRef.current, or 0 for null
  timeouts,             \* the live setTimeout timers, by handle
  intervals,            \* the live setInterval timers, by handle
  sessionId,            \* useState: the session identifier, made at creation
  mounted,              \* the widget is mounted
  chatInFlight,         \* bag of the chat requests awaiting their response
  statusQueries,        \* bag of the status queries awaiting their response
  superseded            \* history: the booking ids the dispatcher replaced while
                        \* they were polled (an id leaves the set when the
                        \* dispatcher, or the answer to a query about the held
                        \* booking, installs it again)

VARIABLES
  selectedDate,         \* useState of AvailabilityChecker: the chosen date, or NoDate
  availability,         \* useState of AvailabilityChecker: the response, or Null
  slots,                \* the raw slot list convertToTimeSlots is called with
  timeSlots             \* what convertToTimeSlots returned in the last render

widgetVars ==
  <<messages, isLoading, appointmentDetails, availableSlots,
    isWaitingForConfirmation, isOpen, isMinimized, isCompleting, dirty,
    renderedIsLoading, effectDeps, effectTimeout, pollingIntervalRef, timeouts,
    intervals, sessionId, mounted, chatInFlight, statusQueries, superseded>>

checkerVars == <<selectedDate, availability, slots, timeSlots>>

vars == <<widgetVars, checkerVars>>

\* selectedDate === null
NoDate == <<>>

shellVars == <<isOpen, isMinimized>>

timerVars == <<effectDeps, effectTimeout, pollingIntervalRef, timeouts, intervals>>

historyVars == <<superseded>>

instanceVars == <<sessionId, mounted>>

\* `session-${Date.now()}` at the widget's creation
NewSessionId == <<"s", "-", "1">>

\* The turns the chat requests in flight will append.
Reserved == BagCardinality(chatInFlight)

\* The requests awaiting their response, chat requests and status queries.
InFlight == BagCardinality(chatInFlight) + BagCardinality(statusQueries)

InitWidget ==
  /\ messages = <<>>
  /\ isLoading = FALSE
  /\ appointmentDetails = Null
  /\ availableSlots = <<>>
  /\ isWaitingForConfirmation = FALSE
  /\ isOpen = FALSE
  /\ isMinimized = FALSE
  /\ isCompleting = FALSE
  /\ dirty = FALSE
  /\ renderedIsLoading = FALSE
  /\ effectDeps = Deps(Null, FALSE)
  /\ effectTimeout = 0
  /\ pollingIntervalRef = 0
  /\ timeouts = [h \in Handles |-> NoTimer]
  /\ intervals = [h \in Handles |-> NoTimer]
  /\ sessionId = NewSessionId
  /\ mounted = TRUE
  /\ chatInFlight = EmptyBag
  /\ statusQueries = EmptyBag
  /\ superseded = {}

\* The page holds the widget; no availability checker is in use.
Init ==
  /\ InitWidget
  /\ selectedDate = NoDate
  /\ availability = Null
  /\ slots = <<>>
  /\ timeSlots = <<>>

\* ------------------------------------------------------ the polling effect
TimerState ==
  [timeouts |-> timeouts, intervals |-> intervals,
   ref |-> pollingIntervalRef, effectTimeout |-> effectTimeout]

\* The lowest handle that is not live in table f, or 0.
FreeHandle(f) ==
  IF \E h \in Handles : f[h] = NoTimer
  THEN CHOOSE h \in Handles :
         f[h] = NoTimer /\ \A g \in Handles : g < h => f[g] # NoTimer
  ELSE 0

\* A cleanup that clears the initial-check timer and leaves the interval running.
EffectCleanupKeepsInterval(t) ==
  [timeouts |-> IF t.effectTimeout # 0
                THEN [t.timeouts EXCEPT ![t.effectTimeout] = NoTimer]
                ELSE t.timeouts,
   intervals |-> t.intervals,
   ref |-> t.ref,
   effectTimeout |-> 0]

\* A cleanup that clears the interval and forgets the initial-check timer.
EffectCleanupKeepsTimeout(t) ==
  [timeouts |-> t.timeouts,
   intervals |-> IF t.ref # 0
                 THEN [t.intervals EXCEPT ![t.ref] = NoTimer]
                 ELSE t.intervals,
   ref |-> 0,
   effectTimeout |-> 0]

\* The effect's cleanup function: clearTimeout(initialTimeout) when the effect
\* had scheduled one, and clearInterval(pollingIntervalRef.current).
EffectCleanup(t) ==
  [timeouts |-> IF t.effectTimeout # 0
                THEN [t.timeouts EXCEPT ![t.effectTimeout] = NoTimer]
                ELSE t.timeouts,
   intervals |-> IF t.ref # 0
                 THEN [t.intervals EXCEPT ![t.ref] = NoTimer]
                 ELSE t.intervals,
   ref |-> 0,
   effectTimeout |-> 0]

\* An effect that polls whenever the flag is set, booking or not.
EffectPollsWhenWaiting(ad, waiting) ==
  waiting \/ (HasBookingId(ad) /\ IsPending(ad))

\* The effect decides to poll.
EffectPolls(ad, waiting) ==
  HasBookingId(ad) /\ (IsPending(ad) \/ waiting)

\* The effect's body: schedules the initial check and the recurring interval,
\* both closing over the appointmentDetails and the flag of this render.
EffectSetup(t, ad, waiting) ==
  IF EffectPolls(ad, waiting)
  THEN LET h1 == FreeHandle(t.timeouts)
           h2 == FreeHandle(t.intervals)
       IN [timeouts |-> [t.timeouts EXCEPT ![h1] =
                           [live |-> TRUE, ad |-> ad, waiting |-> waiting,
                            ms |-> InitialDelay(waiting)]],
           intervals |-> [t.intervals EXCEPT ![h2] =
                            [live |-> TRUE, ad |-> ad, waiting |-> waiting,
                             ms |-> PollInterval(waiting)]],
           ref |-> h2,
           effectTimeout |-> h1]
  ELSE [t EXCEPT !.effectTimeout = 0]

\* An effect without dependency list: it runs again on every render.
RunEffectEveryRender(t, deps, ad, waiting) ==
  EffectSetup(EffectCleanup(t), ad, waiting)

\* React runs the effect when a dependency changed: the previous cleanup, then the body.
RunEffect(t, deps, ad, waiting) ==
  IF Deps(ad, waiting) = deps THEN t
  ELSE EffectSetup(EffectCleanup(t), ad, waiting)

\* The handle table has room for what the effect schedules.
HandlesSuffice(t, deps, ad, waiting) ==
  (Deps(ad, waiting) # deps /\ EffectPolls(ad, waiting)) =>
    /\ FreeHandle(EffectCleanup(t).timeouts) # 0
    /\ FreeHandle(EffectCleanup(t).intervals) # 0

\* The commit of a render with BookingState ad and flag waiting.
Commit(ad, waiting) ==
  LET t == RunEffect(TimerState, effectDeps, ad, waiting)
  IN /\ HandlesSuffice(TimerState, effectDeps, ad, waiting)
     /\ timeouts' = t.timeouts
     /\ intervals' = t.intervals
     /\ pollingIntervalRef' = t.ref
     /\ effectTimeout' = t.effectTimeout
     /\ effectDeps' = Deps(ad, waiting)

\* clearInterval(pollingIntervalRef.current); pollingIntervalRef.current = null
StopPolling ==
  /\ intervals' = IF pollingIntervalRef # 0
                  THEN [intervals EXCEPT ![pollingIntervalRef] = NoTimer]
                  ELSE intervals
  /\ pollingIntervalRef' = 0

\* The AppointmentConfirmation child is mounted.
ChildMounted(open, minimized, ad) == open /\ ~minimized /\ ad # Null

\* React's commit of the queued state updates.
Render ==
  /\ dirty
  /\ dirty' = FALSE
  /\ renderedIsLoading' = isLoading
  /\ Commit(appointmentDetails, isWaitingForConfirmation)
  /\ isCompleting' = (isCompleting /\ ChildMounted(isOpen, isMinimized, appointmentDetails))
  /\ UNCHANGED <<messages, isLoading, appointmentDetails, availableSlots,
                 isWaitingForConfirmation, shellVars, instanceVars, checkerVars,
                 chatInFlight, statusQueries, historyVars>>

\* ------------------------------------------------------------ dispatcher
SlotLists == {<<>>, <<Slot>>}

\* What the chat call resolves to: a response, or a raised error.
\* The response's available_slots field: a list, or not there.
NoSlots == [has |-> FALSE, list |-> <<>>]

SlotFields == {NoSlots} \cup [has : {TRUE}, list : SlotLists]

\* response.message of a response
ReplyText == <<"o", "k">>

\* error.message of a raised error
ErrorText == <<"5">>

ChatResults ==
  {[ok |-> FALSE, message |-> ErrorText, appointment_details |-> Null,
    available_slots |-> NoSlots]}
  \cup [ok : {TRUE}, message : {ReplyText},
        appointment_details : Payloads \cup {Null},
        available_slots : SlotFields]

\* A dispatcher that keeps the offered slots when the response has none.
SlotsOrKept(x) == IF x.has THEN x.list ELSE availableSlots

\* response.available_slots || []
SlotsOrEmpty(x) == IF x.has THEN x.list ELSE <<>>

\* The guard of handleSendMessage: !message.trim() || isLoading returns.
SubmitRejected(text, loading) == Trim(text) = <<>> \/ loading

\* A request that carries an identifier made for it, not the session's.
ChatRequestOwnId(text) ==
  [message |-> text, sessionId |-> <<"s", "-", "2">>]

\* apiService.sendMessage(message, sessionId, userTimezone)
ChatRequest(text) == [message |-> text, sessionId |-> sessionId]

\* handleSendMessage up to its await.  The isLoading it tests is the one of the
\* render that created the closure.  committed: the call is a UI event, whose
\* state updates React commits before anything else runs.
HandleSendMessage(text, committed) ==
  IF SubmitRejected(text, renderedIsLoading)
  THEN UNCHANGED vars
  ELSE /\ mounted
       /\ Len(messages) + Reserved + 2 <= MaxTurns
       /\ InFlight < MaxInFlight
       /\ isOpen' = TRUE
       /\ isMinimized' = (isOpen /\ isMinimized)
       /\ messages' = AppendTurn(messages, UserTurn(text))
       /\ isLoading' = TRUE
       /\ chatInFlight' = chatInFlight (+) SetToBag({ChatRequest(text)})
       /\ dirty' = (dirty \/ ~committed)
       /\ renderedIsLoading' = IF committed THEN TRUE ELSE renderedIsLoading
       /\ UNCHANGED <<appointmentDetails, availableSlots,
                      isWaitingForConfirmation, isCompleting, timerVars,
                      instanceVars, checkerVars, statusQueries, historyVars>>

\* ChatInput calls onSendMessage.
SubmitInput(text) ==
  /\ ~dirty
  /\ isOpen /\ ~isMinimized
  /\ HandleSendMessage(text, TRUE)

\* handleSlotClick: a TimeSlotButtons button, shown while slots are offered
\* and no dispatch is loading.
SubmitSlot(k) ==
  /\ ~dirty
  /\ isOpen /\ ~isMinimized
  /\ k \in 1..Len(availableSlots)
  /\ ~renderedIsLoading
  /\ HandleSendMessage(availableSlots[k].display_text, TRUE)

\* A caller invokes the sendMessage of the imperative handle.
SubmitHandle(text) == HandleSendMessage(text, FALSE)

\* The timers of the effect are live: the booking is being polled.
Polled ==
  \/ \E h \in Handles : timeouts[h] # NoTimer
  \/ \E h \in Handles : intervals[h] # NoTimer

\* A dispatcher that clears the flag when its response clears the booking.
ChatResponseClearsFlag(req, r) ==
  /\ ~dirty
  /\ mounted
  /\ req \in BagToSet(chatInFlight)
  /\ chatInFlight' = chatInFlight (-) SetToBag({req})
  /\ isLoading' = FALSE
  /\ dirty' = TRUE
  /\ IF r.ok
     THEN /\ messages' = AppendTurn(messages, AssistantTurn(r.message))
          /\ appointmentDetails' = r.appointment_details
          /\ availableSlots' = SlotsOrEmpty(r.available_slots)
          /\ superseded' =
               IF HasBookingId(appointmentDetails) /\ Polled
                  /\ HasBookingId(r.appointment_details)
                  /\ IdOf(r.appointment_details) # IdOf(appointmentDetails)
               THEN (superseded \cup {IdOf(appointmentDetails)})
                      \ {IdOf(r.appointment_details)}
               ELSE superseded \ {IdOf(r.appointment_details)}
     ELSE /\ messages' = AppendTurn(messages, ErrorTurn(r.message))
          /\ UNCHANGED <<appointmentDetails, availableSlots, historyVars>>
  /\ isWaitingForConfirmation' =
       (isWaitingForConfirmation /\ ~(r.ok /\ r.appointment_details = Null))
  /\ UNCHANGED <<shellVars, isCompleting,
                 renderedIsLoading, timerVars, instanceVars, checkerVars, statusQueries>>

\* A dispatcher whose catch block empties the slot list.
ChatResponseFailureClearsSlots(req, r) ==
  /\ ~dirty
  /\ mounted
  /\ req \in BagToSet(chatInFlight)
  /\ chatInFlight' = chatInFlight (-) SetToBag({req})
  /\ isLoading' = FALSE
  /\ dirty' = TRUE
  /\ IF r.ok
     THEN /\ messages' = AppendTurn(messages, AssistantTurn(r.message))
          /\ appointmentDetails' = r.appointment_details
          /\ availableSlots' = SlotsOrEmpty(r.available_slots)
          /\ superseded' =
               IF HasBookingId(appointmentDetails) /\ Polled
                  /\ HasBookingId(r.appointment_details)
                  /\ IdOf(r.appointment_details) # IdOf(appointmentDetails)
               THEN (superseded \cup {IdOf(appointmentDetails)})
                      \ {IdOf(r.appointment_details)}
               ELSE superseded \ {IdOf(r.appointment_details)}
     ELSE /\ messages' = AppendTurn(messages, ErrorTurn(r.message))
          /\ availableSlots' = <<>>
          /\ UNCHANGED <<appointmentDetails, historyVars>>
  /\ UNCHANGED <<isWaitingForConfirmation, shellVars, isCompleting,
                 renderedIsLoading, timerVars, instanceVars, checkerVars, statusQueries>>

\* handleSendMessage after its await: the try block, the catch block, finally.
ChatResponse(req, r) ==
  /\ ~dirty
  /\ mounted
  /\ req \in BagToSet(chatInFlight)
  /\ chatInFlight' = chatInFlight (-) SetToBag({req})
  /\ isLoading' = FALSE
  /\ dirty' = TRUE
  /\ IF r.ok
     THEN /\ messages' = AppendTurn(messages, AssistantTurn(r.message))
          /\ appointmentDetails' = r.appointment_details
          /\ availableSlots' = SlotsOrEmpty(r.available_slots)
          /\ superseded' =
               IF HasBookingId(appointmentDetails) /\ Polled
                  /\ HasBookingId(r.appointment_details)
                  /\ IdOf(r.appointment_details) # IdOf(appointmentDetails)
               THEN (superseded \cup {IdOf(appointmentDetails)})
                      \ {IdOf(r.appointment_details)}
               ELSE superseded \ {IdOf(r.appointment_details)}
     ELSE /\ messages' = AppendTurn(messages, ErrorTurn(r.message))
          /\ UNCHANGED <<appointmentDetails, availableSlots, historyVars>>
  /\ UNCHANGED <<isWaitingForConfirmation, shellVars, isCompleting,
                 renderedIsLoading, timerVars, instanceVars, checkerVars, statusQueries>>

\* ---------------------------------------------------------------- engine
\* What the status query resolves to: a booking, nothing, or a raised error.
StatusResults ==
  {[ok |-> FALSE, body |-> Null]} \cup [ok : {TRUE}, body : Payloads \cup {Null}]

\* checkBookingStatus up to its await, in the closure cl of the effect that
\* scheduled it: "none" (no booking id), "stop" (not pending and not waiting:
\* the interval is cleared) or "query" (the status query is issued).
CheckStart(cl) ==
  IF ~HasBookingId(cl.ad) THEN "none"
  ELSE IF ~IsPending(cl.ad) /\ ~cl.waiting THEN "stop"
  ELSE "query"

\* The timer callback, shared by the initial timeout and the interval.
CheckBookingStatus(cl) ==
  /\ CheckStart(cl) = "query" => InFlight < MaxInFlight
  /\ statusQueries' =
       IF CheckStart(cl) = "query"
       THEN statusQueries (+) SetToBag({[kind |-> "poll", ad |-> cl.ad]})
       ELSE statusQueries

\* The initial check fires, once.
TimeoutFires(h) ==
  /\ ~dirty
  /\ timeouts[h] # NoTimer
  /\ CheckBookingStatus(timeouts[h])
  /\ timeouts' = [timeouts EXCEPT ![h] = NoTimer]
  /\ IF CheckStart(timeouts[h]) = "stop"
     THEN StopPolling
     ELSE UNCHANGED <<intervals, pollingIntervalRef>>
  /\ UNCHANGED <<messages, isLoading, appointmentDetails, availableSlots,
                 isWaitingForConfirmation, shellVars, isCompleting, dirty,
                 renderedIsLoading, effectDeps, effectTimeout, instanceVars, checkerVars, chatInFlight,
                 historyVars>>

\* The recurring check fires.  The effect schedules it together with the
\* initial check, whose delay is the shorter: it fires after that one.
IntervalFires(h) ==
  /\ ~dirty
  /\ intervals[h] # NoTimer
  /\ \A g \in Handles :
       timeouts[g] # NoTimer => timeouts[g].ms >= intervals[h].ms
  /\ CheckBookingStatus(intervals[h])
  /\ IF CheckStart(intervals[h]) = "stop"
     THEN StopPolling
     ELSE UNCHANGED <<intervals, pollingIntervalRef>>
  /\ UNCHANGED <<messages, isLoading, appointmentDetails, availableSlots,
                 isWaitingForConfirmation, shellVars, isCompleting, dirty,
                 renderedIsLoading, effectDeps, effectTimeout, timeouts,
                 instanceVars, checkerVars, chatInFlight, historyVars>>

\* A checkBookingStatus that takes a raised error for the loss of the booking.
PollBranchErrorClears(local, r) ==
  IF ~r.ok THEN "changed"
  ELSE IF r.body = Null THEN "absent"
  ELSE IF IsPending(local) /\ IsNowConfirmed(r.body) THEN "confirmed"
  ELSE IF r.body.status # local.status
       THEN IF r.body.status = "confirmed" /\ local.status = "pending"
            THEN "changedConfirmed"
            ELSE "changed"
  ELSE "unchanged"

\* A checkBookingStatus that takes an absent booking for a cleared one.
PollBranchAbsentClears(local, r) ==
  IF ~r.ok THEN "error"
  ELSE IF r.body = Null THEN "changed"
  ELSE IF IsPending(local) /\ IsNowConfirmed(r.body) THEN "confirmed"
  ELSE IF r.body.status # local.status
       THEN IF r.body.status = "confirmed" /\ local.status = "pending"
            THEN "changedConfirmed"
            ELSE "changed"
  ELSE "unchanged"

\* A checkBookingStatus that stores every booking the query returns.
PollBranchAlwaysStores(local, r) ==
  IF ~r.ok THEN "error"
  ELSE IF r.body = Null THEN "absent"
  ELSE IF IsPending(local) /\ IsNowConfirmed(r.body) THEN "confirmed"
  ELSE IF r.body.status # local.status
       THEN IF r.body.status = "confirmed" /\ local.status = "pending"
            THEN "changedConfirmed"
            ELSE "changed"
  ELSE "changed"

\* A checkBookingStatus that tests the status change before the confirmation.
PollBranchStatusFirst(local, r) ==
  IF ~r.ok THEN "error"
  ELSE IF r.body = Null THEN "absent"
  ELSE IF r.body.status # local.status
       THEN IF r.body.status = "confirmed" /\ local.status = "pending"
            THEN "changedConfirmed"
            ELSE "changed"
  ELSE IF IsPending(local) /\ IsNowConfirmed(r.body) THEN "confirmed"
  ELSE "unchanged"

\* The branch checkBookingStatus takes on the query's result r, in a closure
\* holding the booking local.
PollBranch(local, r) ==
  IF ~r.ok THEN "error"
  ELSE IF r.body = Null THEN "absent"
  ELSE IF IsPending(local) /\ IsNowConfirmed(r.body) THEN "confirmed"
  ELSE IF r.body.status # local.status
       THEN IF r.body.status = "confirmed" /\ local.status = "pending"
            THEN "changedConfirmed"
            ELSE "changed"
  ELSE "unchanged"

\* The branches that append the success message and stop polling.
Confirms(branch) == branch \in {"confirmed", "changedConfirmed"}

\* checkBookingStatus after its await.
PollResponse(q, r) ==
  /\ ~dirty
  /\ mounted
  /\ q \in BagToSet(statusQueries)
  /\ q.kind = "poll"
  /\ statusQueries' = statusQueries (-) SetToBag({q})
  /\ LET branch == PollBranch(q.ad, r)
     IN /\ Confirms(branch) => Len(messages) + Reserved + 1 <= MaxTurns
        /\ appointmentDetails' =
             IF branch \in {"confirmed", "changedConfirmed", "changed"}
             THEN r.body ELSE appointmentDetails
        /\ dirty' = (branch \in {"confirmed", "changedConfirmed", "changed"})
        /\ IF Confirms(branch)
           THEN /\ messages' = AppendTurn(messages, ConfirmationTurn(r.body, q.ad))
                /\ isWaitingForConfirmation' = FALSE
                /\ StopPolling
           ELSE UNCHANGED <<messages, isWaitingForConfirmation, intervals,
                            pollingIntervalRef>>
        /\ superseded' =
             IF branch \in {"confirmed", "changedConfirmed", "changed"}
                /\ q.ad.booking_id \notin superseded
             THEN superseded \ {IdOf(r.body)}
             ELSE superseded
  /\ UNCHANGED <<isLoading, availableSlots, shellVars, isCompleting,
                 renderedIsLoading, effectDeps, effectTimeout, timeouts,
                 instanceVars, checkerVars, chatInFlight>>

\* --------------------------------------------------------------- hand-off
\* The "Complete Your Booking" button of AppointmentConfirmation is shown.
HandoffButton ==
  /\ ChildMounted(isOpen, isMinimized, appointmentDetails)
  /\ HasBookingId(appointmentDetails)
  /\ appointmentDetails.scheduling_link
  /\ RendererIsPending(appointmentDetails)
  /\ ~isCompleting

\* The button's onClick and the widget's onBookingComplete: the flag is set
\* and the booking's status is refreshed at once, by its booking_id.
OnBookingComplete ==
  /\ ~dirty
  /\ mounted
  /\ HandoffButton
  /\ InFlight < MaxInFlight
  /\ isCompleting' = TRUE
  /\ isWaitingForConfirmation' = TRUE
  /\ statusQueries' =
       statusQueries (+)
         SetToBag({[kind |-> "refresh",
                    ad |-> [booking_id |-> appointmentDetails.booking_id]]})
  /\ Commit(appointmentDetails, TRUE)
  /\ UNCHANGED <<messages, isLoading, appointmentDetails, availableSlots,
                 shellVars, dirty, renderedIsLoading, instanceVars, checkerVars, chatInFlight, historyVars>>

\* The .then and .catch of onBookingComplete's status query.
RefreshResponse(q, r) ==
  /\ ~dirty
  /\ mounted
  /\ q \in BagToSet(statusQueries)
  /\ q.kind = "refresh"
  /\ statusQueries' = statusQueries (-) SetToBag({q})
  /\ IF r.ok /\ r.body # Null
     THEN /\ appointmentDetails' = r.body
          /\ dirty' = TRUE
          /\ superseded' =
               IF q.ad.booking_id \notin superseded
               THEN superseded \ {IdOf(r.body)}
               ELSE superseded
     ELSE UNCHANGED <<appointmentDetails, dirty, superseded>>
  /\ UNCHANGED <<messages, isLoading, availableSlots, isWaitingForConfirmation,
                 shellVars, isCompleting, renderedIsLoading, timerVars,
                 instanceVars, checkerVars, chatInFlight>>

\* ------------------------------------------------------------------ shell
\* The launcher button shown while the widget is closed.
OpenChat ==
  /\ ~dirty
  /\ mounted
  /\ ~isOpen
  /\ isOpen' = TRUE
  /\ UNCHANGED <<messages, isLoading, appointmentDetails, availableSlots,
                 isWaitingForConfirmation, isMinimized, isCompleting, dirty,
                 renderedIsLoading, timerVars, instanceVars, checkerVars, chatInFlight, statusQueries,
                 historyVars>>

ToggleChat ==
  /\ ~dirty
  /\ mounted
  /\ isOpen
  /\ IF isOpen /\ ~isMinimized
     THEN isMinimized' = TRUE /\ isOpen' = isOpen
     ELSE isOpen' = TRUE /\ isMinimized' = FALSE
  /\ isCompleting' = (isCompleting /\ isMinimized)
  /\ UNCHANGED <<messages, isLoading, appointmentDetails, availableSlots,
                 isWaitingForConfirmation, dirty, renderedIsLoading, timerVars,
                 instanceVars, checkerVars, chatInFlight, statusQueries, historyVars>>

\* A closeChat that also clears the polling interval.
CloseChatStopsPolling ==
  /\ ~dirty
  /\ mounted
  /\ isOpen
  /\ isOpen' = FALSE
  /\ isMinimized' = FALSE
  /\ isCompleting' = FALSE
  /\ StopPolling
  /\ UNCHANGED <<messages, isLoading, appointmentDetails, availableSlots,
                 isWaitingForConfirmation, dirty, renderedIsLoading, effectDeps,
                 effectTimeout, timeouts, instanceVars, checkerVars,
                 chatInFlight, statusQueries, historyVars>>

CloseChat ==
  /\ ~dirty
  /\ mounted
  /\ isOpen
  /\ isOpen' = FALSE
  /\ isMinimized' = FALSE
  /\ isCompleting' = FALSE
  /\ UNCHANGED <<messages, isLoading, appointmentDetails, availableSlots,
                 isWaitingForConfirmation, dirty, renderedIsLoading, timerVars,
                 instanceVars, checkerVars, chatInFlight, statusQueries, historyVars>>

\* --------------------------------------------------------------- teardown
\* The widget is unmounted: React runs the cleanup of the polling effect.
Unmount ==
  /\ ~dirty
  /\ mounted
  /\ mounted' = FALSE
  /\ LET t == EffectCleanup(TimerState)
     IN /\ timeouts' = t.timeouts
        /\ intervals' = t.intervals
        /\ pollingIntervalRef' = t.ref
        /\ effectTimeout' = t.effectTimeout
  /\ UNCHANGED <<messages, isLoading, appointmentDetails, availableSlots,
                 isWaitingForConfirmation, shellVars, isCompleting, dirty,
                 renderedIsLoading, effectDeps, sessionId, chatInFlight,
                 statusQueries, historyVars, checkerVars>>

\* The chat call resolves after the unmount: React drops the state updates of
\* handleSendMessage's continuation.
ChatResponseUnmounted(req) ==
  /\ ~mounted
  /\ req \in BagToSet(chatInFlight)
  /\ chatInFlight' = chatInFlight (-) SetToBag({req})
  /\ UNCHANGED <<messages, isLoading, appointmentDetails, availableSlots,
                 isWaitingForConfirmation, shellVars, isCompleting, dirty,
                 renderedIsLoading, timerVars, instanceVars, checkerVars, statusQueries,
                 historyVars>>

\* A status query resolves after the unmount: the state updates are dropped, and
\* a confirming branch clears the interval pollingIntervalRef still holds.
StatusResponseUnmounted(q, r) ==
  /\ ~mounted
  /\ q \in BagToSet(statusQueries)
  /\ statusQueries' = statusQueries (-) SetToBag({q})
  /\ IF q.kind = "poll" /\ Confirms(PollBranch(q.ad, r))
     THEN StopPolling
     ELSE UNCHANGED <<intervals, pollingIntervalRef>>
  /\ UNCHANGED <<messages, isLoading, appointmentDetails, availableSlots,
                 isWaitingForConfirmation, shellVars, isCompleting, dirty,
                 renderedIsLoading, effectDeps, effectTimeout, timeouts,
                 instanceVars, checkerVars, chatInFlight, historyVars>>

Next ==
  \/ \E text \in Texts : SubmitInput(text)
  \/ \E k \in 1..1 : SubmitSlot(k)
  \/ \E text \in Texts : SubmitHandle(text)
  \/ \E req \in BagToSet(chatInFlight), r \in ChatResults : ChatResponse(req, r)
  \/ Render
  \/ \E h \in Handles : TimeoutFires(h)
  \/ \E h \in Handles : IntervalFires(h)
  \/ \E q \in BagToSet(statusQueries), r \in StatusResults : PollResponse(q, r)
  \/ OnBookingComplete
  \/ \E q \in BagToSet(statusQueries), r \in StatusResults : RefreshResponse(q, r)
  \/ OpenChat
  \/ ToggleChat
  \/ CloseChat
  \/ Unmount
  \/ \E req \in BagToSet(chatInFlight) : ChatResponseUnmounted(req)
  \/ \E q \in BagToSet(statusQueries), r \in StatusResults :
       StatusResponseUnmounted(q, r)

Spec == Init /\ [][Next]_vars

\* ------------------------------------------------- the confirming service
\* The booking id the scheduling service gives a booking once it is completed.
RealId == <<"B", "K", "-", "1">>

\* The status query for the booking of q, answered by a service on which the
\* booking is completed: status confirmed, under its real id.
ConfirmedAnswer(q) ==
  [ok |-> TRUE,
   body |-> [booking_id |-> IF StartsWith(q.ad.booking_id, TEMP)
                            THEN RealId ELSE q.ad.booking_id,
             status |-> "confirmed",
             scheduling_link |-> FALSE]]

\* The session's first submit: the transcript keeps room for the confirmation
\* turn of every status query that can be in flight.
FirstSubmit == messages = <<>> /\ chatInFlight = EmptyBag

\* The widget, mounted, in front of the confirming service: one dispatch, then
\* the engine and the hand-off.
NextReconcile ==
  \/ \E text \in Texts : FirstSubmit /\ SubmitInput(text)
  \/ \E text \in Texts : FirstSubmit /\ SubmitHandle(text)
  \/ \E req \in BagToSet(chatInFlight), r \in ChatResults : ChatResponse(req, r)
  \/ Render
  \/ \E h \in Handles : TimeoutFires(h)
  \/ \E h \in Handles : IntervalFires(h)
  \/ \E q \in BagToSet(statusQueries) : PollResponse(q, ConfirmedAnswer(q))
  \/ OnBookingComplete
  \/ \E q \in BagToSet(statusQueries) : RefreshResponse(q, ConfirmedAnswer(q))
  \/ OpenChat
  \/ ToggleChat
  \/ CloseChat

\* The status queries the widget can issue.
PossibleQueries ==
  [kind : {"poll"}, ad : Payloads]
  \cup [kind : {"refresh"}, ad : [booking_id : BookingIds]]

\* React commits every queued render, every scheduled timer fires, and every
\* request resolves: no timer and no request in flight is starved by another.
ReconcileFairness ==
  /\ WF_vars(Render)
  /\ \A h \in Handles : WF_vars(TimeoutFires(h))
  /\ \A h \in Handles : WF_vars(IntervalFires(h))
  /\ \A q \in PossibleQueries : WF_vars(PollResponse(q, ConfirmedAnswer(q)))
  /\ \A q \in PossibleQueries : WF_vars(RefreshResponse(q, ConfirmedAnswer(q)))
  /\ WF_vars(\E req \in BagToSet(chatInFlight), r \in ChatResults : ChatResponse(req, r))

ReconcileSpec == Init /\ [][NextReconcile]_vars /\ ReconcileFairness

\* ------------------------------------------------- the detailed service
\* The date, time or confirmation_code of a payload: omitted, or a text.
DetailValues == {Undefined, <<"1">>, <<"2">>}

\* The details a payload carries: the date and the time are given together or
\* omitted together, the confirmation_code on its own.
BookingDetails ==
  {d \in [date : DetailValues, time : DetailValues,
          confirmation_code : DetailValues] : d.time = d.date}

\* The payload p carrying the details d.
WithDetails(p, d) ==
  [booking_id |-> p.booking_id, status |-> p.status,
   scheduling_link |-> p.scheduling_link,
   date |-> d.date, time |-> d.time,
   confirmation_code |-> d.confirmation_code]

\* The payloads of a service that knows one booking, under its real id.
DetailedPayloads ==
  {WithDetails(p, d) : p \in {x \in Payloads : x.booking_id = RealId},
                       d \in BookingDetails}

\* The chat call books the appointment: the booking it delivers is pending.
DetailedChatResults ==
  [ok : {TRUE}, message : {ReplyText},
   appointment_details : {p \in DetailedPayloads : p.status = "pending"},
   available_slots : {NoSlots}]

DetailedStatusResults == [ok : {TRUE}, body : DetailedPayloads]

\* The widget, mounted, in front of the detailed service: one dispatch, then
\* the engine.
NextDetailed ==
  \/ OpenChat
  \/ FirstSubmit /\ SubmitInput(SlotText)
  \/ \E req \in BagToSet(chatInFlight), r \in DetailedChatResults :
       ChatResponse(req, r)
  \/ Render
  \/ \E h \in Handles : TimeoutFires(h)
  \/ \E h \in Handles : IntervalFires(h)
  \/ \E q \in BagToSet(statusQueries), r \in DetailedStatusResults :
       PollResponse(q, r)

DetailedSpec == Init /\ [][NextDetailed]_vars

\* -------------------------------------------------- availability checker
\* convertToTimeSlots of AvailabilityChecker (the normalizer) and the state it
\* closes over.  full_date, the long form of the date, is left out of the
\* slots it returns.
MaxSlots == 3

Dates == {<<"1", "1", "-", "0", "3">>, <<"1", "1", "-", "0", "4">>}

\* availability.duration_minutes; 0 stands for a response without the field.
Durations == {0, 45}

AvailabilityResponses == [duration_minutes : Durations]

\* The times of a raw slot: raw_time (NoToken when the slot has none) and the
\* free text start_time.
NoToken == <<>>

SlotTimes ==
  {[raw_time |-> <<"0", "9", ":", "0", "5">>,
    start_time |-> <<"9", ":", "0", "5", " ", "A", "M">>],
   [raw_time |-> <<"2", "3", ":", "5", "0">>,
    start_time |-> <<"1", "1", ":", "5", "0", " ", "P", "M">>],
   [raw_time |-> NoToken, start_time |-> <<"2", " ", "P", "M">>],
   [raw_time |-> NoToken, start_time |-> <<"2", ":", "3", "0", " ", "P", "M">>],
   [raw_time |-> NoToken, start_time |-> <<"n", "o", "o", "n">>]}

\* The raw slots: each of the times, flagged available, and the times with a
\* token flagged unavailable (the times of a slot that is dropped are not read).
RawSlots ==
  {s \in [raw_time : {t.raw_time : t \in SlotTimes},
          start_time : {t.start_time : t \in SlotTimes},
          available : BOOLEAN] :
     /\ [raw_time |-> s.raw_time, start_time |-> s.start_time] \in SlotTimes
     /\ s.available \/ s.raw_time # NoToken}

RECURSIVE SeqsUpTo(_, _)
SeqsUpTo(S, n) ==
  IF n = 0 THEN {<<>>}
  ELSE SeqsUpTo(S, n - 1)
         \cup {Append(q, x) : q \in {r \in SeqsUpTo(S, n - 1) : Len(r) = n - 1},
                              x \in S}

RawSlotLists == SeqsUpTo(RawSlots, MaxSlots)

Digits == <<"0", "1", "2", "3", "4", "5", "6", "7", "8", "9">>

IsDigit(c) == \E i \in DOMAIN Digits : Digits[i] = c

DigitValue(c) == (CHOOSE i \in DOMAIN Digits : Digits[i] = c) - 1

\* NaN of the Number conversion
NaN == -1

RECURSIVE DigitsValue(_)
DigitsValue(s) ==
  IF s = <<>> THEN 0
  ELSE 10 * DigitsValue(SubSeq(s, 1, Len(s) - 1)) + DigitValue(s[Len(s)])

\* Number(s) of a string of digits (0 for the empty string), NaN otherwise
ToNumber(s) ==
  IF \A i \in DOMAIN s : IsDigit(s[i]) THEN DigitsValue(s) ELSE NaN

\* s.split(sep)
RECURSIVE Split(_, _)
Split(s, sep) ==
  IF \E i \in DOMAIN s : s[i] = sep
  THEN LET i == CHOOSE k \in DOMAIN s :
                  s[k] = sep /\ \A j \in 1..(k - 1) : s[j] # sep
       IN <<SubSeq(s, 1, i - 1)>> \o Split(SubSeq(s, i + 1, Len(s)), sep)
  ELSE <<s>>

\* s.match(/\d{1,2}/g): the numerals of one or two digits, left to right; the
\* empty sequence stands for null.
RECURSIVE MatchNumerals(_)
MatchNumerals(s) ==
  IF s = <<>> THEN <<>>
  ELSE IF ~IsDigit(s[1]) THEN MatchNumerals(Tail(s))
  ELSE IF Len(s) >= 2 /\ IsDigit(s[2])
       THEN <<SubSeq(s, 1, 2)>> \o MatchNumerals(SubSeq(s, 3, Len(s)))
  ELSE <<SubSeq(s, 1, 1)>> \o MatchNumerals(Tail(s))

\* The array [hours, minutes] is destructured from: the numbers of the token's
\* parts, or of the free text's numerals, or [9, 0].
TimeParts(slot) ==
  IF slot.raw_time # NoToken
  THEN LET parts == Split(slot.raw_time, ":")
       IN [i \in DOMAIN parts |-> ToNumber(parts[i])]
  ELSE LET found == MatchNumerals(slot.start_time)
       IN IF found # <<>>
          THEN [i \in DOMAIN found |-> ToNumber(found[i])]
          ELSE <<9, 0>>

\* hours
HoursOf(slot) == TimeParts(slot)[1]

\* minutes || 0
MinutesOf(slot) ==
  LET parts == TimeParts(slot)
  IN IF Len(parts) >= 2 /\ parts[2] # NaN THEN parts[2] ELSE 0

\* A duration read without its default.
DurationWithoutDefault(a) == a.duration_minutes

\* availability.duration_minutes || 30
DurationOf(a) == IF a.duration_minutes # 0 THEN a.duration_minutes ELSE 30

\* n.toString()
RECURSIVE ToText(_)
ToText(n) ==
  IF n < 10 THEN <<Digits[n + 1]>>
  ELSE ToText(n \div 10) \o <<Digits[(n % 10) + 1]>>

\* n.toString().padStart(2, '0')
Pad2(n) == IF n < 10 THEN <<"0">> \o ToText(n) ELSE ToText(n)

\* formatTime of a Date t minutes after the midnight of the chosen date:
\* toLocaleTimeString('en-US', hour numeric, minute 2-digit, hour12)
FormatTime(t) ==
  LET h == (t % 1440) \div 60
      m == t % 60
      h12 == IF h % 12 = 0 THEN 12 ELSE h % 12
  IN ToText(h12) \o <<":">> \o Pad2(m) \o <<" ">>
       \o (IF h < 12 THEN <<"A", "M">> ELSE <<"P", "M">>)

InvalidDate == <<"I", "n", "v", "a", "l", "i", "d">>

\* startDate.setHours(hours, minutes || 0, 0, 0), in minutes after midnight;
\* NaN when the hours are not a number.
StartOf(slot) ==
  IF HoursOf(slot) = NaN THEN NaN ELSE HoursOf(slot) * 60 + MinutesOf(slot)

\* endDate.setMinutes(endDate.getMinutes() + duration)
EndOf(slot, a) ==
  IF StartOf(slot) = NaN THEN NaN ELSE StartOf(slot) + DurationOf(a)

FormatTimeOrInvalid(t) == IF t = NaN THEN InvalidDate ELSE FormatTime(t)

\* The function of .map: the TimeSlot made from one raw slot.
TimeSlotOf(slot, date, a) ==
  [date |-> date,
   start_time |-> FormatTimeOrInvalid(StartOf(slot)),
   end_time |-> FormatTimeOrInvalid(EndOf(slot, a)),
   raw_time |-> IF slot.raw_time # NoToken THEN slot.raw_time
                ELSE Pad2(HoursOf(slot)) \o <<":">> \o Pad2(MinutesOf(slot)),
   display_text |-> FormatTimeOrInvalid(StartOf(slot)) \o <<" ", "-", " ">>
                      \o FormatTimeOrInvalid(EndOf(slot, a)),
   available |-> slot.available]

\* A filter that lets every slot through.
KeepsEverySlot(slot) == TRUE

\* The predicate of .filter: slot => slot.available
KeepsSlot(slot) == slot.available

\* convertToTimeSlots(list), in a render with the chosen date and the response a.
ConvertToTimeSlots(list, date, a) ==
  IF date = NoDate \/ a = Null THEN <<>>
  ELSE LET kept == SelectSeq(list, KeepsSlot)
       IN [i \in DOMAIN kept |-> TimeSlotOf(kept[i], date, a)]

\* The slots the render hands to TimeSlotButtons: convertToTimeSlots of the raw
\* list, with the date and the response of that render.
Rendered(date, a) == ConvertToTimeSlots(slots, date, a)

\* DatePicker calls onDateSelect; the checker renders again.
SetSelectedDate(date) ==
  /\ selectedDate' = date
  /\ timeSlots' = Rendered(date, availability)
  /\ UNCHANGED <<availability, slots, widgetVars>>

\* handleCheckAvailability with a date chosen: the response is stored, or
\* nothing while the request is pending and when it failed; the checker
\* renders again.
HandleCheckAvailability(result) ==
  /\ selectedDate # NoDate
  /\ availability' = result
  /\ timeSlots' = Rendered(selectedDate, result)
  /\ UNCHANGED <<selectedDate, slots, widgetVars>>

\* The checker before a date is chosen, for each raw slot list.
InitChecker ==
  /\ InitWidget
  /\ selectedDate = NoDate
  /\ availability = Null
  /\ slots \in RawSlotLists
  /\ timeSlots = <<>>

NextChecker ==
  \/ \E date \in Dates : SetSelectedDate(date)
  \/ \E result \in AvailabilityResponses \cup {Null} : HandleCheckAvailability(result)

CheckerSpec == InitChecker /\ [][NextChecker]_vars

\* ------------------------------------------------------------ properties
Last(s) == s[Len(s)]

\* A committed state: no state update awaits its render.
Committed == ~dirty

LiveTimeouts == {h \in Handles : timeouts[h] # NoTimer}

LiveIntervals == {h \in Handles : intervals[h] # NoTimer}

\* The position of the dispatcher's last reply in the transcript, or 0.
LastReply ==
  IF \E i \in DOMAIN messages : messages[i].kind = "reply"
  THEN CHOOSE i \in DOMAIN messages :
         /\ messages[i].kind = "reply"
         /\ \A j \in DOMAIN messages : messages[j].kind = "reply" => j <= i
  ELSE 0

\* The confirmation turns appended since the dispatcher last set the booking.
ConfirmationsOfBooking ==
  Cardinality({i \in DOMAIN messages :
                 i > LastReply /\ messages[i].kind = "confirmation"})

\* C1: the engine appends at most one confirmation turn to the transcript for
\* the booking the dispatcher supplied, whatever status-query responses arrive.
C1_IdempotentConfirmation == ConfirmationsOfBooking <= 1

\* The booking is confirmed and real, and the flag is clear: the engine is in CONFIRMED.
EngineConfirmed ==
  /\ appointmentDetails # Null
  /\ IsNowConfirmed(appointmentDetails)
  /\ ~isWaitingForConfirmation

\* The step issues a status query.
QueryIssued ==
  /\ statusQueries' # statusQueries
  /\ BagCardinality(statusQueries') > BagCardinality(statusQueries)

\* The PENDING -> CONFIRMED step: a poll issued while the held booking was
\* effectively pending returns a confirmed booking without the sentinel prefix.
ConfirmingPoll(q, r) ==
  /\ q.kind = "poll"
  /\ r.ok /\ r.body # Null
  /\ IsPending(q.ad)
  /\ IsNowConfirmed(r.body)
  /\ PollResponse(q, r)

C3_PendingToPending ==
  [][\A q \in BagToSet(statusQueries), r \in StatusResults :
       (/\ PollResponse(q, r)
        /\ r.ok /\ r.body # Null
        /\ IsPending(q.ad)
        /\ r.body.status # q.ad.status
        /\ RendererIsPending(r.body)) =>
         /\ appointmentDetails' = r.body
         /\ messages' = messages
         /\ intervals' = intervals]_vars

\* C4: after the dispatcher replaced booking A, which was being polled, by
\* another booking, no status query referencing A is issued.
C4_TimerCancellation ==
  [][\A q \in BagToSet(statusQueries') :
       CopiesIn(q, statusQueries') > CopiesIn(q, statusQueries) =>
         q.ad.booking_id \notin superseded]_vars

\* C5: at most one initial-check timer and at most one interval are live, the
\* interval is the one pollingIntervalRef holds, and in a committed state every
\* live timer polls the booking_id of the held BookingState.
C5_OneLiveReference ==
  /\ Cardinality(LiveTimeouts) <= 1
  /\ Cardinality(LiveIntervals) <= 1
  /\ \A h \in LiveIntervals : pollingIntervalRef = h
  /\ Committed =>
       /\ \A h \in LiveTimeouts :
            HasBookingId(appointmentDetails)
            /\ timeouts[h].ad.booking_id = appointmentDetails.booking_id
       /\ \A h \in LiveIntervals :
            HasBookingId(appointmentDetails)
            /\ intervals[h].ad.booking_id = appointmentDetails.booking_id

\* C5 witness: a second booking is polled by both timers after the dispatcher
\* superseded the first.
C5_Witness ==
  /\ Committed
  /\ superseded # {}
  /\ LiveTimeouts # {}
  /\ LiveIntervals # {}
  /\ IdOf(appointmentDetails) \notin superseded

\* C6: a timer is live only while a BookingState is present and effectively pending.
C6_PollingOnlyWhilePending ==
  (Committed /\ Polled) =>
    (appointmentDetails # Null /\ IsPending(appointmentDetails))

\* C7: the flag is set only while a BookingState is present and effectively pending.
C7_FlagOnlyWhilePending ==
  (Committed /\ isWaitingForConfirmation) =>
    (appointmentDetails # Null /\ IsPending(appointmentDetails))

\* C8: a booking with status confirmed and a TEMP- id is pending for every
\* consumer: the effect polls it, the renderer presents it as pending, and the
\* engine appends no confirmation turn when a poll returns it.
C8_EffectivePendingConsistency ==
  [][\A q \in BagToSet(statusQueries), r \in StatusResults :
       (/\ PollResponse(q, r)
        /\ r.ok /\ r.body # Null
        /\ r.body.status = "confirmed"
        /\ StartsWith(r.body.booking_id, TEMP)) =>
         /\ EffectPolls(r.body, FALSE)
         /\ RendererIsPending(r.body) /\ ~RendererIsConfirmed(r.body)
         /\ ~(Len(messages') > Len(messages)
              /\ Last(messages').kind = "confirmation")]_vars

\* C9: a submit has an effect (its user turn is appended and its chat request
\* issued) only when its text is not blank and no dispatch is in flight.
C9_SubmitNoOp ==
  [][(Len(messages') > Len(messages) /\ Last(messages').role = "user") =>
       /\ Trim(Last(messages').content) # <<>>
       /\ chatInFlight = EmptyBag]_vars

\* C10: at most one chat request is in flight.
C10_SingleFlight == BagCardinality(chatInFlight) <= 1

\* The step issues a chat request.
RequestIssued ==
  /\ chatInFlight' # chatInFlight
  /\ BagCardinality(chatInFlight') > BagCardinality(chatInFlight)

\* The step consumes the response of a chat request.
RequestResolved ==
  /\ chatInFlight' # chatInFlight
  /\ BagCardinality(chatInFlight') < BagCardinality(chatInFlight)

IsPrefix(s, t) == Len(s) <= Len(t) /\ SubSeq(t, 1, Len(s)) = s

\* The user turns of the transcript that carry text.
UserTurnsOf(text) ==
  Cardinality({i \in DOMAIN messages :
                 messages[i].role = "user" /\ messages[i].content = text})

\* C11: the step that issues a chat request appends the user turn carrying the
\* request's text, so every request in flight has its user turn in the
\* transcript, and the step that consumes the response, successful or failed,
\* keeps every earlier turn.
C11_UserTurnBeforeResolve ==
  /\ [][RequestIssued =>
         \E req \in BagToSet(chatInFlight' (-) chatInFlight) :
           /\ Len(messages') = Len(messages) + 1
           /\ IsPrefix(messages, messages')
           /\ Last(messages').role = "user"
           /\ Last(messages').content = req.message]_vars
  /\ [][\A req \in BagToSet(chatInFlight') :
         UserTurnsOf(req.message)' >= CopiesIn(req, chatInFlight')]_vars
  /\ [][RequestResolved => IsPrefix(messages, messages')]_vars

\* C11 witness: the chat call of a submit failed and its user turn is still
\* in the transcript, before the error turn.
C11_Witness ==
  /\ Len(messages) >= 2
  /\ messages[1].role = "user"
  /\ messages[1].content = SlotText
  /\ messages[2].kind = "error"
  /\ chatInFlight = EmptyBag

\* C12: a successful dispatch appends exactly one assistant turn carrying the
\* returned text, replaces the slot list by the response's list (the empty list
\* when the response has none) and replaces BookingState by the response's
\* appointment payload when it has one.
C12_DispatchSuccess ==
  [][RequestResolved =>
       \A req \in BagToSet(chatInFlight), r \in ChatResults :
         (r.ok /\ ChatResponse(req, r)) =>
           /\ Len(messages') = Len(messages) + 1
           /\ IsPrefix(messages, messages')
           /\ Last(messages').role = "assistant"
           /\ Last(messages').content = r.message
           /\ availableSlots' =
                IF r.available_slots.has THEN r.available_slots.list ELSE <<>>
           /\ r.appointment_details # Null =>
                appointmentDetails' = r.appointment_details]_vars

\* C12 witness: a second dispatch has just succeeded, with an appointment
\* payload and an empty slot list: the reply is the last turn.
C12_Witness ==
  /\ dirty
  /\ messages # <<>>
  /\ Last(messages).kind = "reply"
  /\ Last(messages).content = ReplyText
  /\ Len(messages) = 4
  /\ availableSlots = <<>>
  /\ appointmentDetails # Null

\* sub occurs in s
Contains(s, sub) ==
  \E i \in 1..(Len(s) - Len(sub) + 1) : SubSeq(s, i, i + Len(sub) - 1) = sub

\* C13: a failed dispatch appends exactly one assistant turn containing the
\* error's text, leaves BookingState, the slot list, the flag and the timers as
\* they are, and issues no request: the failed one is not retried.
C13_DispatchFailure ==
  [][RequestResolved =>
       \A req \in BagToSet(chatInFlight), r \in ChatResults :
         (~r.ok /\ ChatResponse(req, r)) =>
           /\ Len(messages') = Len(messages) + 1
           /\ IsPrefix(messages, messages')
           /\ Last(messages').role = "assistant"
           /\ Contains(Last(messages').content, r.message)
           /\ appointmentDetails' = appointmentDetails
           /\ availableSlots' = availableSlots
           /\ isWaitingForConfirmation' = isWaitingForConfirmation
           /\ timeouts' = timeouts
           /\ intervals' = intervals
           /\ pollingIntervalRef' = pollingIntervalRef
           /\ chatInFlight' = chatInFlight (-) SetToBag({req})
           /\ statusQueries' = statusQueries]_vars

\* C13 witness: a dispatch has just failed while a booking was polled and
\* slots were offered; both are still there.
C13_Witness ==
  /\ dirty
  /\ messages # <<>>
  /\ Last(messages).kind = "error"
  /\ Contains(Last(messages).content, ErrorText)
  /\ appointmentDetails # Null
  /\ availableSlots # <<>>
  /\ LiveIntervals # {}

\* The step appends a user turn: a submit is accepted.
SubmitAccepted ==
  /\ Len(messages') > Len(messages)
  /\ Last(messages').role = "user"

\* C14: a step issues a chat request exactly when it accepts a submit, and then
\* it issues one request, carrying the submitted text and the session
\* identifier; no step changes the session identifier.
C14_OneRequestPerSubmit ==
  /\ [][SubmitAccepted <=> RequestIssued]_vars
  /\ [][RequestIssued =>
         /\ BagCardinality(chatInFlight') = BagCardinality(chatInFlight) + 1
         /\ \A req \in BagToSet(chatInFlight' (-) chatInFlight) :
              /\ req.message = Last(messages').content
              /\ req.sessionId = sessionId]_vars
  /\ [][sessionId' = sessionId]_vars

\* C14 witness: two submits were accepted, the second after the first
\* resolved, and the second's request is in flight with the session identifier.
C14_Witness ==
  /\ Len(messages) = 3
  /\ messages[1].role = "user"
  /\ messages[2].role = "assistant"
  /\ messages[3].role = "user"
  /\ chatInFlight = SetToBag({[message |-> SlotText, sessionId |-> NewSessionId]})

\* The step consumes the response of a status query.
QueryResolved ==
  /\ statusQueries' # statusQueries
  /\ BagCardinality(statusQueries') < BagCardinality(statusQueries)

\* The step leaves the transcript, BookingState, the flag and every timer alone.
EngineUntouched ==
  /\ messages' = messages
  /\ appointmentDetails' = appointmentDetails
  /\ isWaitingForConfirmation' = isWaitingForConfirmation
  /\ timeouts' = timeouts
  /\ intervals' = intervals
  /\ pollingIntervalRef' = pollingIntervalRef
  /\ effectTimeout' = effectTimeout

\* C15: a status query that raises, of a poll or of the hand-off's refresh,
\* changes nothing: no turn is appended, BookingState and the flag stay, and
\* the interval stays live with its period, so the next poll is still due.
C15_QueryFailureSwallowed ==
  [][QueryResolved =>
       \A q \in BagToSet(statusQueries), r \in StatusResults :
         (~r.ok /\ (PollResponse(q, r) \/ RefreshResponse(q, r))) =>
           /\ EngineUntouched
           /\ ~dirty']_vars

\* C15 witness: the flag is set, the booking is polled at the tightened period
\* and a poll's status query is awaiting its outcome.
C15_Witness ==
  /\ Committed /\ mounted
  /\ isWaitingForConfirmation
  /\ \E h \in LiveIntervals : intervals[h].ms = PollIntervalWaiting
  /\ \E q \in BagToSet(statusQueries) : q.kind = "poll"

\* C16: a status query that returns no booking, for a poll or for the hand-off's
\* refresh, changes nothing: BookingState, the transcript and the flag stay and
\* the timers stay live.
C16_AbsentIsNotTerminal ==
  [][QueryResolved =>
       \A q \in BagToSet(statusQueries), r \in StatusResults :
         (r.ok /\ r.body = Null
          /\ (PollResponse(q, r) \/ RefreshResponse(q, r))) =>
           /\ EngineUntouched
           /\ ~dirty']_vars

\* C16 witness: a pending booking is polled by its interval, the flag is clear
\* and a poll's status query is awaiting its outcome.
C16_Witness ==
  /\ Committed /\ mounted
  /\ ~isWaitingForConfirmation
  /\ appointmentDetails # Null
  /\ IsPending(appointmentDetails)
  /\ LiveIntervals # {}
  /\ \E q \in BagToSet(statusQueries) :
       q.kind = "poll" /\ q.ad.booking_id = appointmentDetails.booking_id

\* C17: a poll that returns the booking_id and the status its closure holds,
\* still effectively pending, changes nothing: BookingState and the transcript
\* stay, no render is queued, so the effect does not run again and the timers
\* are neither cancelled nor rescheduled.
C17_IdenticalPollIsNoOp ==
  [][QueryResolved =>
       \A q \in BagToSet(statusQueries), r \in StatusResults :
         (/\ q.kind = "poll"
          /\ r.ok /\ r.body # Null
          /\ r.body.booking_id = q.ad.booking_id
          /\ r.body.status = q.ad.status
          /\ IsPending(r.body)
          /\ PollResponse(q, r)) =>
           /\ EngineUntouched
           /\ effectDeps' = effectDeps
           /\ ~dirty']_vars

\* C17 witness: the held booking is provisional and pending, a poll issued from
\* its own closure is in flight and the interval is live.
C17_Witness ==
  /\ Committed /\ mounted
  /\ appointmentDetails # Null
  /\ StartsWith(appointmentDetails.booking_id, TEMP)
  /\ appointmentDetails.status = "pending"
  /\ LiveIntervals # {}
  /\ [kind |-> "poll", ad |-> appointmentDetails] \in BagToSet(statusQueries)

\* C18: once a BookingState is present no step makes it absent (the widget has
\* no session reset).
C18_NeverImplicitlyCleared ==
  [][appointmentDetails # Null => appointmentDetails' # Null]_vars

\* C19: in an empty session whose only turn is the accepted submit's, a
\* successful dispatch without appointment payload leaves two turns, user then
\* assistant, no BookingState and no timer; and whenever a render commits
\* with no BookingState, no timer is live.
C19_NoPayloadNoPolling ==
  /\ [][RequestResolved =>
         \A req \in BagToSet(chatInFlight), r \in ChatResults :
           (/\ r.ok /\ r.appointment_details = Null
            /\ Len(messages) = 1
            /\ appointmentDetails = Null
            /\ ChatResponse(req, r)) =>
             /\ Len(messages') = 2
             /\ messages'[1].role = "user"
             /\ messages'[2].role = "assistant"
             /\ appointmentDetails' = Null
             /\ ~Polled']_vars
  /\ [][\A req \in BagToSet(chatInFlight), r \in ChatResults :
         (RequestResolved /\ r.ok /\ r.appointment_details = Null
          /\ ChatResponse(req, r)) =>
           /\ timeouts' = timeouts
           /\ intervals' = intervals
           /\ statusQueries' = statusQueries]_vars
  /\ [][(Committed' /\ appointmentDetails' = Null) => ~Polled']_vars

\* C19 witness: the first dispatch succeeded without payload and its render
\* is committed: two turns, no booking, no timer.
C19_Witness ==
  /\ Committed /\ mounted
  /\ Len(messages) = 2
  /\ messages[1].role = "user"
  /\ messages[2].kind = "reply"
  /\ appointmentDetails = Null
  /\ ~Polled
  /\ chatInFlight = EmptyBag

\* C20: once the widget is unmounted no initial-check timer and no interval is
\* live, and no step issues a status query.
C20_TeardownCancelsTimers ==
  /\ [][~mounted' => ~Polled']_vars
  /\ [][~mounted => ~QueryIssued]_vars

\* C20 witness: the widget was unmounted while the effect polled a pending
\* booking and a status query was in flight; no timer is left.
C20_Witness ==
  /\ ~mounted
  /\ HasBookingId(appointmentDetails)
  /\ IsPending(appointmentDetails)
  /\ effectDeps = Deps(appointmentDetails, isWaitingForConfirmation)
  /\ statusQueries # EmptyBag
  /\ ~Polled

\* The reconciliation is done: the booking is confirmed under its real id, the
\* flag is clear, the transcript holds a confirmation turn and no timer is live.
Reconciled ==
  /\ EngineConfirmed
  /\ \E i \in DOMAIN messages : messages[i].kind = "confirmation"
  /\ ~Polled

C22_AppendOnly == [][IsPrefix(messages, messages')]_vars

\* C22 witness: a submit, its successful dispatch and a poll's confirmation
\* have each appended their turn, in that order.
C22_Witness ==
  /\ Len(messages) = 3
  /\ messages[1] = UserTurn(SlotText)
  /\ messages[2] = AssistantTurn(ReplyText)
  /\ messages[3].kind = "confirmation"

\* The turn a dispatch appends when its chat call resolves or fails.
DispatchTurn(m) == m.kind \in {"reply", "error"}

\* C23: between two user turns of the transcript lies the assistant or error
\* turn of a dispatch: the turn of the first submit's dispatch is appended
\* before the next submit's user turn.
C23_NoAppendRace ==
  \A i, j \in DOMAIN messages :
    (i < j /\ messages[i].role = "user" /\ messages[j].role = "user") =>
      \E k \in (i + 1)..(j - 1) : DispatchTurn(messages[k])

\* The status queries in flight that the timers issued for the held booking.
PollsOfHeldBooking ==
  {q \in BagToSet(statusQueries) :
     q.kind = "poll" /\ q.ad.booking_id = IdOf(appointmentDetails)}

\* C24: at most one status query issued by the initial check or the interval
\* is in flight for the held booking.
C24_SingleFlightPolling ==
  \A q1, q2 \in PollsOfHeldBooking :
    q1 = q2 /\ CopiesIn(q1, statusQueries) = 1

\* The positions of the raw slots whose availability flag is true.
AvailablePositions == {i \in DOMAIN slots : slots[i].available}

\* The position in the raw list of its i-th slot flagged available.
AvailablePosition(i) ==
  CHOOSE p \in AvailablePositions :
    Cardinality({q \in AvailablePositions : q <= p}) = i

\* The slots returned are those of the raw list that are flagged available,
\* each once and in the raw list's order, for the date and response held.
FilteredInOrder ==
  /\ Len(timeSlots) <= Len(slots)
  /\ (selectedDate = NoDate \/ availability = Null) => timeSlots = <<>>
  /\ (selectedDate # NoDate /\ availability # Null) =>
       /\ Len(timeSlots) = Cardinality(AvailablePositions)
       /\ \A i \in DOMAIN timeSlots :
            /\ timeSlots[i].available
            /\ timeSlots[i] =
                 TimeSlotOf(slots[AvailablePosition(i)], selectedDate, availability)

\* C25: the normalizer returns nothing when no date or no availability response
\* is held; otherwise its output is never longer than the raw list and consists
\* of the slots flagged available, each once, in the order of the raw list:
\* output position i comes from the i-th available raw slot.
C25_NormalizerFilters == FilteredInOrder

\* C25 witness: of three raw slots, the unavailable middle one is dropped and
\* the same available slot, given twice, is returned twice.
C25_Witness ==
  /\ Len(slots) = 3
  /\ slots[1].available /\ ~slots[2].available /\ slots[3] = slots[1]
  /\ Len(timeSlots) = 2
  /\ timeSlots[1] = timeSlots[2]

\* The step is the commit of the render that follows a successful dispatch
\* which delivered a BookingState: the render before it saw the dispatch loading.
DispatchCommit ==
  /\ dirty /\ ~dirty'
  /\ renderedIsLoading /\ ~isLoading
  /\ messages # <<>> /\ Last(messages).kind = "reply"
  /\ appointmentDetails # Null

\* C26: once the BookingState a successful dispatch delivered is committed, the
\* timers of the engine are live if and only if that BookingState has a
\* booking_id and is effectively pending; a confirmed booking with a real id
\* starts no polling.
C26_HandOffToEngine ==
  [][DispatchCommit =>
       (Polled' <=> (HasBookingId(appointmentDetails')
                     /\ IsPending(appointmentDetails')))]_vars

\* The timers and the references to them are left as they are.
TimersUntouched ==
  /\ timeouts' = timeouts
  /\ intervals' = intervals
  /\ pollingIntervalRef' = pollingIntervalRef
  /\ effectTimeout' = effectTimeout

\* The commit of a dispatch that delivered the booking_id and the status of the
\* BookingState held before it: a state-refresh.
StateRefreshCommit ==
  /\ DispatchCommit
  /\ effectDeps = Deps(appointmentDetails, isWaitingForConfirmation)

\* C27: a successful dispatch whose payload has the booking_id and the status of
\* the held BookingState neither cancels nor reschedules the timers, in its
\* own step and in the commit of its render, and the timers left live poll
\* that booking_id.
C27_StateRefresh ==
  /\ [][RequestResolved =>
         \A req \in BagToSet(chatInFlight), r \in ChatResults :
           (/\ r.ok /\ r.appointment_details # Null
            /\ appointmentDetails # Null
            /\ r.appointment_details.booking_id = appointmentDetails.booking_id
            /\ r.appointment_details.status = appointmentDetails.status
            /\ ChatResponse(req, r)) =>
             TimersUntouched /\ effectDeps' = effectDeps]_vars
  /\ [][StateRefreshCommit =>
         /\ TimersUntouched
         /\ \A h \in LiveTimeouts' :
              timeouts'[h].ad.booking_id = appointmentDetails'.booking_id
         /\ \A h \in LiveIntervals' :
              intervals'[h].ad.booking_id = appointmentDetails'.booking_id]_vars

\* C27 witness: the second dispatch has delivered the pending booking the
\* effect already polls, whose initial check has fired; the interval is live.
C27_Witness ==
  /\ dirty /\ renderedIsLoading /\ ~isLoading
  /\ Len(messages) = 4
  /\ Last(messages).kind = "reply"
  /\ HasBookingId(appointmentDetails)
  /\ IsPending(appointmentDetails)
  /\ effectDeps = Deps(appointmentDetails, isWaitingForConfirmation)
  /\ LiveTimeouts = {}
  /\ LiveIntervals # {}

\* One initial check and one interval are live, at the cadence of the flag w.
ScheduledAtCadence(w) ==
  /\ Cardinality(LiveTimeouts) = 1
  /\ Cardinality(LiveIntervals) = 1
  /\ \A h \in LiveTimeouts :
       timeouts[h].ms = InitialDelay(w) /\ timeouts[h].waiting = w
  /\ \A h \in LiveIntervals :
       intervals[h].ms = PollInterval(w) /\ intervals[h].waiting = w

\* C28: the initial delay and the period are shorter with the flag set than
\* without it (2 s and 3 s against 3 s and 5 s) and the initial delay is shorter
\* than the period; every live timer runs at the cadence of the flag its
\* closure holds; the step that starts polling schedules one initial check and
\* one interval at the cadence of the flag; and the step that sets the flag
\* leaves exactly one initial check and one interval live, both at the
\* tightened cadence.
C28_PollingCadence ==
  /\ [][/\ InitialDelay(TRUE) < InitialDelay(FALSE)
        /\ PollInterval(TRUE) < PollInterval(FALSE)
        /\ \A w \in BOOLEAN : InitialDelay(w) < PollInterval(w)
        /\ InitialDelay(TRUE) = 2000 /\ PollInterval(TRUE) = 3000
        /\ InitialDelay(FALSE) = 3000 /\ PollInterval(FALSE) = 5000]_vars
  /\ [][/\ \A h \in LiveTimeouts' :
             timeouts'[h].ms = InitialDelay(timeouts'[h].waiting)
        /\ \A h \in LiveIntervals' :
             intervals'[h].ms = PollInterval(intervals'[h].waiting)]_vars
  /\ [][(~Polled /\ Polled') =>
          ScheduledAtCadence(isWaitingForConfirmation)']_vars
  /\ [][(~isWaitingForConfirmation /\ isWaitingForConfirmation') =>
          ScheduledAtCadence(TRUE)']_vars

\* C28 witness: the hand-off set the flag while the booking was polled: the
\* initial check and the interval run at 2 s and 3 s, the flag is set and the
\* hand-off's refresh is in flight.
C28_Witness ==
  /\ Committed /\ mounted
  /\ isWaitingForConfirmation
  /\ HasBookingId(appointmentDetails)
  /\ IsPending(appointmentDetails)
  /\ \E h \in LiveTimeouts : timeouts[h].ms = InitialDelayWaiting
  /\ \E h \in LiveIntervals : intervals[h].ms = PollIntervalWaiting
  /\ \E q \in BagToSet(statusQueries) : q.kind = "refresh"

\* The answer r is about the booking the query q asked for.
AnswersQuery(q, r) ==
  r.ok /\ r.body # Null /\ r.body.booking_id = q.ad.booking_id

\* C29: the response of a status query about a booking that is no longer the
\* held one (the dispatcher replaced or cleared it while the query was in
\* flight) is discarded: BookingState, the transcript, the flag and the timers
\* stay as they are.
C29_StaleResponseDiscarded ==
  [][QueryResolved =>
       \A q \in BagToSet(statusQueries), r \in StatusResults :
         (/\ q.ad.booking_id # IdOf(appointmentDetails)
          /\ AnswersQuery(q, r)
          /\ (PollResponse(q, r) \/ RefreshResponse(q, r))) =>
           EngineUntouched]_vars

\* The held booking with pending in place of ready and ready in place of pending.
TwinStatus(ad) ==
  [ad EXCEPT !.status = IF @ = "pending" THEN "ready" ELSE "pending"]

\* What checkBookingStatus does with the result r in a closure holding local:
\* the BookingState it stores (Null: none), whether it appends the confirmation
\* turn and whether it cancels the interval.
PollOutcome(local, r) ==
  LET branch == PollBranch(local, r)
  IN [update |-> IF branch \in {"confirmed", "changedConfirmed", "changed"}
                 THEN r.body ELSE Null,
      appends |-> Confirms(branch),
      cancels |-> Confirms(branch)]

\* C30: a poll resolved in a closure whose booking has status pending or ready
\* stores, appends and cancels what it would with the other of the two
\* statuses in the closure.
C30_ReadyAsPending ==
  [][QueryResolved =>
       \A q \in BagToSet(statusQueries), r \in StatusResults :
         (/\ q.kind = "poll"
          /\ q.ad.status \in {"pending", "ready"}
          /\ AnswersQuery(q, r)
          /\ PollResponse(q, r)) =>
           PollOutcome(q.ad, r) = PollOutcome(TwinStatus(q.ad), r)]_vars

\* The step is the hand-off notification or the outcome of the status query the
\* notification issued.
HandoffStep ==
  \/ OnBookingComplete
  \/ /\ QueryResolved
     /\ \E q \in BagToSet(statusQueries), r \in StatusResults :
          RefreshResponse(q, r)

\* C31: the hand-off notification and the status query it issues leave
\* BookingState and the transcript as they were: the notification sets the
\* flag and nothing else.
C31_HandoffSetsOnlyTheFlag ==
  [][HandoffStep =>
       /\ messages' = messages
       /\ appointmentDetails' = appointmentDetails]_vars

\* The fields the confirmation turn summarizes.
SummaryFields == {"date", "time", "confirmation_code"}

\* The field f as the turn is to show it: the polled payload's when the payload
\* has it, else the one of the BookingState held before the transition.
SummaryField(f, polled, held) ==
  IF Field(polled, f) # Undefined THEN Field(polled, f) ELSE Field(held, f)

\* C32: the confirmation turn a poll appends lists the date, the time and the
\* confirmation code of the polled payload, and for a field the payload omits
\* the value of the BookingState held immediately before the poll's outcome.
C32_ConfirmationSummary ==
  [][QueryResolved =>
       \A q \in BagToSet(statusQueries), r \in DetailedStatusResults :
         (/\ PollResponse(q, r)
          /\ Confirms(PollBranch(q.ad, r))) =>
           \A f \in SummaryFields :
             Last(messages').content[f] =
               SummaryField(f, r.body, appointmentDetails)]_vars

\* The hour and the minute the slot's start is to have: those of the HH:MM
\* token; without a token the first numeral of the free text and minute 0;
\* without a numeral 9 and 0.
ParsedStart(slot) ==
  IF slot.raw_time # NoToken
  THEN [hour |-> DigitsValue(SubSeq(slot.raw_time, 1, 2)),
        minute |-> DigitsValue(SubSeq(slot.raw_time, 4, 5))]
  ELSE IF MatchNumerals(slot.start_time) # <<>>
       THEN [hour |-> DigitsValue(MatchNumerals(slot.start_time)[1]),
             minute |-> 0]
  ELSE [hour |-> 9, minute |-> 0]

\* The zero-padded HH:MM of an hour and a minute.
CanonicalTime(t) == Pad2(t.hour) \o <<":">> \o Pad2(t.minute)

\* C33: every slot the normalizer returns starts at the hour and minute parsed
\* from its raw slot (the token's; else the first numeral of the free text and
\* minute 0; else 09:00), and its canonical time is the token when there is
\* one and otherwise the zero-padded HH:MM of that hour and minute.
C33_TimeParsing ==
  \A i \in DOMAIN timeSlots :
    LET slot == slots[AvailablePosition(i)]
        t == ParsedStart(slot)
    IN /\ timeSlots[i].start_time = FormatTime(t.hour * 60 + t.minute)
       /\ timeSlots[i].raw_time = CanonicalTime(t)
       /\ slot.raw_time # NoToken => timeSlots[i].raw_time = slot.raw_time

\* The minutes added to a slot's start: the response's duration, or 30 when the
\* response omits it or gives 0.
MinutesAdded == IF availability.duration_minutes = 0 THEN 30
                ELSE availability.duration_minutes

\* The time of day d minutes after the time of day start (in minutes after
\* midnight): the minutes beyond 59 carry into the hour.
ClockAfter(start, d) ==
  LET h == start \div 60
      m == start % 60
  IN [hour |-> (h + (m + d) \div 60) % 24, minute |-> (m + d) % 60]

\* C34: the end time of every slot the normalizer returns is its start time
\* plus the duration of the availability response, or plus 30 minutes when the
\* response omits the duration or gives 0, the minutes carrying into the hour.
C34_EndTime ==
  \A i \in DOMAIN timeSlots :
    LET end == ClockAfter(StartOf(slots[AvailablePosition(i)]), MinutesAdded)
    IN timeSlots[i].end_time = FormatTime(end.hour * 60 + end.minute)

\* C34 witness: the response omits the duration and the slot of 23:50 is
\* returned with the end 12:20 AM: thirty minutes added, carried into the hour.
C34_Witness ==
  /\ availability # Null
  /\ availability.duration_minutes = 0
  /\ Len(slots) >= 1
  /\ slots[1].available
  /\ slots[1].raw_time = <<"2", "3", ":", "5", "0">>
  /\ Len(timeSlots) >= 1
  /\ timeSlots[1].end_time = <<"1", "2", ":", "2", "0", " ", "A", "M">>

\* The step is an operation of the widget shell: the launcher button, the
\* minimize toggle or the close button.
ShellStep == OpenChat \/ ToggleChat \/ CloseChat

\* C35: the open, toggle and close operations leave the transcript,
\* BookingState, the slot list, the flag, the dispatch in flight, the status
\* queries in flight and every timer as they are (a closed widget is still
\* polled); and the widget is never minimized while it is closed.
C35_ShellIsAView ==
  /\ [][ShellStep =>
         /\ messages' = messages
         /\ appointmentDetails' = appointmentDetails
         /\ availableSlots' = availableSlots
         /\ isWaitingForConfirmation' = isWaitingForConfirmation
         /\ isLoading' = isLoading
         /\ chatInFlight' = chatInFlight
         /\ statusQueries' = statusQueries
         /\ TimersUntouched
         /\ ~dirty']_vars
  /\ [](isMinimized => isOpen)

\* C35 witness: the widget has been closed while its booking is polled: the
\* interval is still live.
C35_Witness ==
  /\ Committed /\ mounted
  /\ ~isOpen
  /\ HasBookingId(appointmentDetails)
  /\ LiveIntervals # {}
  /\ pollingIntervalRef # 0

\* The number of turns of the transcript that satisfy Test.
TurnCount(Test(_)) == Cardinality({i \in DOMAIN messages : Test(messages[i])})

IsUserTurn(m) == m.role = "user"

\* C36: in the mounted widget a chat call that resolves, by success or by
\* failure, clears the in-flight flag; with no dispatch in flight the user
\* turns are as many as the turns the dispatcher appended for them, and with a
\* dispatch in flight there is exactly one more.
C36_DispatcherNeverBlocked ==
  /\ [][RequestResolved /\ mounted => ~isLoading']_vars
  /\ [](mounted =>
         TurnCount(IsUserTurn) =
           TurnCount(DispatchTurn)
             + (IF chatInFlight = EmptyBag THEN 0 ELSE 1))

\* The step is one of the dispatcher: a submit, accepted or not, or the
\* outcome of a chat call.
DispatcherStep ==
  \/ RequestResolved
  \/ \E text \in Texts : SubmitInput(text) \/ SubmitHandle(text)
  \/ \E k \in 1..Len(availableSlots) : SubmitSlot(k)

\* C37: no step of the dispatcher changes the flag; a step that sets it is the
\* hand-off notification, and a step that clears it is the outcome of a poll
\* whose result has the status confirmed.
C37_FlagOwnership ==
  /\ [][DispatcherStep =>
         isWaitingForConfirmation' = isWaitingForConfirmation]_vars
  /\ [][(~isWaitingForConfirmation /\ isWaitingForConfirmation') =>
         OnBookingComplete]_vars
  /\ [][(isWaitingForConfirmation /\ ~isWaitingForConfirmation') =>
         \E q \in BagToSet(statusQueries), r \in StatusResults :
           /\ PollResponse(q, r)
           /\ r.ok /\ r.body # Null
           /\ r.body.status = "confirmed"]_vars

\* C37 witness: with the flag set, a dispatch has succeeded and cleared the
\* booking; its render is not committed yet and the flag is still set.
C37_Witness ==
  /\ dirty /\ renderedIsLoading /\ ~isLoading
  /\ isWaitingForConfirmation
  /\ appointmentDetails = Null
  /\ messages # <<>> /\ Last(messages).kind = "reply"

\* C38: a step that changes the slot list is the outcome of a chat call that
\* succeeded; polls and their failures, the hand-off notification, the shell
\* operations, submits and failed dispatches leave the list as it is.
C38_SlotListOwnership ==
  [][availableSlots' # availableSlots =>
       /\ RequestResolved
       /\ \E req \in BagToSet(chatInFlight), r \in ChatResults :
            r.ok /\ ChatResponse(req, r)]_vars

\* C38 witness: slots are offered, the booking is polled, and a later dispatch
\* has failed: the slots are still offered.
C38_Witness ==
  /\ dirty /\ renderedIsLoading /\ ~isLoading
  /\ availableSlots # <<>>
  /\ Len(messages) = 4
  /\ Last(messages).kind = "error"
  /\ Polled

====
